---- MODULE Spec2Model ----
(***************************************************************************)
(* Automatic run re-execution of the dagster daemon                       *)
(* (dagster/_daemon/auto_run_reexecution/auto_run_reexecution.py):        *)
(* the eligibility filter, the strategy selector, retry_run and the       *)
(* generator consume_new_runs_for_automatic_reexecution, over a run store *)
(* shared with the execution engine and with other daemon instances.      *)
(***************************************************************************)
EXTENDS Integers, Sequences, FiniteSets, TLC

(***************************************************************************)
(* Bounds of the model.                                                    *)
(***************************************************************************)
\* The runs a store that starts with one or two runs ever holds; a store that
\* starts with MaxRuns runs may grow by one.
MaxRuns == 3
\* Longest batch of run records handed to one sweep.
MaxBatch == 2
\* Number of sweeps (calls of the generator) in one behaviour.
MaxSweeps == 2
\* Number of runs deleted from the store in one behaviour.
MaxDeletes == 1
\* Longest batch where the filter is studied one run at a time (SpecFilter).
MaxFilterBatch == 1
\* Number of sweeps in one behaviour where calls raise (SpecFail).
MaxFailSweeps == 1

RunIds == 1..(MaxRuns + 1)
\* parent_run_id / root_run_id of a run that has none (Python None).
NoRun == 0
\* get_retry_number's None (its int results are lengths, never negative).
NoRetry == 0 - 1

Procs == {1, 2}

(***************************************************************************)
(* Tags and enum values.                                                   *)
(***************************************************************************)
MAX_RETRIES_TAG == "max_retries"
RETRY_NUMBER_TAG == "retry_number"
RETRY_STRATEGY_TAG == "retry_strategy"
RETRY_ON_ASSET_OR_OP_FAILURE_TAG == "retry_on_asset_or_op_failure"
RUN_FAILURE_REASON_TAG == "run_failure_reason"
AUTO_RETRY_RUN_ID_TAG == "auto_retry_run_id"

FAILURE == "FAILURE"
STEP_FAILURE == "STEP_FAILURE"
ReexecutionStrategyMembers == {"FROM_FAILURE", "ALL_STEPS"}
DEFAULT_REEXECUTION_POLICY == "FROM_FAILURE"

\* tags.get(key) is not None
HasTag(tags, key) == key \in DOMAIN tags

\* dict merge: the entries of extra override those of base
MergeTags(base, extra) ==
    [k \in DOMAIN base \cup DOMAIN extra |->
        IF k \in DOMAIN extra THEN extra[k] ELSE base[k]]

(***************************************************************************)
(* Strings that are converted are sequences of one-character strings.      *)
(* PyInt is Python's int(str): surrounding blanks stripped, an optional    *)
(* sign, then one or more decimal digits; anything else is a ValueError.   *)
(* PyStr is str(int).                                                      *)
(***************************************************************************)
Digits == <<"0", "1", "2", "3", "4", "5", "6", "7", "8", "9">>
IsDigit(c) == \E i \in 1..10 : Digits[i] = c
DigitVal(c) == (CHOOSE i \in 1..10 : Digits[i] = c) - 1

RECURSIVE LStrip(_)
LStrip(s) == IF s # <<>> /\ Head(s) = " " THEN LStrip(Tail(s)) ELSE s

RECURSIVE RStrip(_)
RStrip(s) ==
    IF s # <<>> /\ s[Len(s)] = " " THEN RStrip(SubSeq(s, 1, Len(s) - 1)) ELSE s

RECURSIVE DigitsVal(_)
DigitsVal(s) ==
    IF s = <<>> THEN 0
    ELSE 10 * DigitsVal(SubSeq(s, 1, Len(s) - 1)) + DigitVal(s[Len(s)])

PyInt(str) ==
    LET s == RStrip(LStrip(str))
        signed == s # <<>> /\ Head(s) \in {"-", "+"}
        body == IF signed THEN Tail(s) ELSE s
    IN  IF body # <<>> /\ \A i \in 1..Len(body) : IsDigit(body[i])
        THEN [ok |-> TRUE,
              val |-> IF signed /\ Head(s) = "-" THEN 0 - DigitsVal(body)
                      ELSE DigitsVal(body)]
        ELSE [ok |-> FALSE, val |-> 0]

RECURSIVE PyStr(_)
PyStr(n) ==
    IF n < 0 THEN <<"-">> \o PyStr(0 - n)
    ELSE IF n < 10 THEN <<Digits[n + 1]>>
    ELSE PyStr(n \div 10) \o <<Digits[(n % 10) + 1]>>


(***************************************************************************)
(* The state.                                                              *)
(***************************************************************************)
VARIABLES
    runs,       \* the run store: run id -> DagsterRun, for the runs it holds
    nextId,     \* the id the next created run gets (ids are never reused)
    events,     \* engine events reported: run id -> event kind -> count
    submitted,  \* the runs submit_run has accepted
    created,    \* every <<parent id, child id>> create_reexecuted_run made
    run_retries_max_retries,                  \* instance setting
    run_retries_retry_on_asset_or_op_failure, \* instance setting
    failable,   \* the collaborator call sites that may raise
    procs,      \* the daemon instances that sweep
    limits,     \* what is done at most: [batch, sweeps, runs]
    pc,         \* per instance: where its generator (or its consumer) stands
    batch,      \* per instance: the run records handed to the sweep
    idx,        \* per instance: position of the filter's loop in the batch
    cand,       \* per instance: the pair (run, retry_number) last yielded
    newRun,     \* per instance: retry_run's new_run (its id), NoRun before
    strategy,   \* per instance: retry_run's resolved strategy
    checkpoints,\* per instance: checkpoints yielded by the current sweep
    attempts,   \* per instance: retry_run calls started by the current sweep
    obs,        \* what the last evaluation of the filter saw and decided
    workspace,  \* what the code location holds: [has_repository, has_job]
    sweeps      \* sweeps started so far

vars == <<runs, nextId, events, submitted, created, run_retries_max_retries,
          run_retries_retry_on_asset_or_op_failure, failable, procs, limits, pc, batch,
          idx, cand, newRun, strategy, checkpoints, attempts, obs,
          workspace, sweeps>>

storeVars == <<runs, nextId, submitted, created>>
envVars == <<run_retries_max_retries, run_retries_retry_on_asset_or_op_failure,
             failable, procs, limits, workspace>>

EventKinds == {"parse_max_retries", "skip_step_failure", "bad_strategy",
               "no_origin", "no_repository", "no_job", "retrying", "launched",
               "failed_to_retry"}

\* The call sites of collaborator methods, by the function that makes them.
FilterSites == {"filter.report_engine_event", "filter.get_run_group"}
RetrySites == {"retry.create_request_context", "retry.report_engine_event",
               "retry.get_code_location", "retry.get_job",
               "retry.create_reexecuted_run", "retry.submit_run",
               "retry.add_run_tags"}
HandlerSites == {"handler.report_engine_event"}
NoFail == "none"

\* instance.report_engine_event(message, run), once per kind of ks
Report(ev, run_id, ks) ==
    [ev EXCEPT ![run_id] = [k \in EventKinds |->
        IF k \in ks THEN ev[run_id][k] + 1 ELSE ev[run_id][k]]]

\* The number of events reported on a run so far.
RECURSIVE SumOver(_, _)
SumOver(f, ks) ==
    IF ks = {} THEN 0
    ELSE LET k == CHOOSE x \in ks : TRUE IN f[k] + SumOver(f, ks \ {k})
EventCount(ev, run_id) == SumOver(ev[run_id], EventKinds)

NoEvents == [r \in RunIds |-> [k \in EventKinds |-> 0]]

(***************************************************************************)
(* Collaborators: the run store and the tag helper.                        *)
(***************************************************************************)
\* instance.get_run_group(run_id): nothing for a run the store does not hold,
\* else the root and every stored run that is the root or descends from it.
get_run_group(store, run_id) ==
    IF run_id \notin DOMAIN store
    THEN [exists |-> FALSE, root |-> NoRun, members |-> {}]
    ELSE LET root == IF store[run_id].root_run_id # NoRun
                     THEN store[run_id].root_run_id ELSE run_id
         IN  [exists |-> TRUE, root |-> root,
              members |-> {store[r] : r \in
                  {x \in DOMAIN store : x = root \/ store[x].root_run_id = root}}]

\* get_boolean_tag_value(tags.get(key), default_value)
get_boolean_tag_value(tags, key, default_value) ==
    IF ~HasTag(tags, key) THEN default_value ELSE tags[key] = "true"

(***************************************************************************)
(* filter_runs_to_should_retry                                             *)
(***************************************************************************)
\* get_retry_number with a fault planted, selected by `fault`:
\*   "status"  the status check of line 31 is missing
\*   "budget"  line 57 compares with > instead of >=
\*   "number"  line 63 returns the group size plus one
\*   "parse"   an unparsable tag falls back to the default (lines 40-44)
\*   "child"   the child check of lines 61-62 is missing
\*   "tag"     the child check goes by the run's auto_retry_run_id tag
\*   "nobudget" the budget check of lines 57-58 is missing
FaultyRetryNumber(run, store, default_max_retries, fault) ==
    IF fault # "status" /\ run.status # FAILURE
    THEN [ret |-> NoRetry, event |-> FALSE, lookup |-> FALSE]
    ELSE
    LET tagged == IF HasTag(run.tags, MAX_RETRIES_TAG)
                  THEN PyInt(run.tags[MAX_RETRIES_TAG])
                  ELSE [ok |-> TRUE, val |-> default_max_retries]
        parsed == IF fault = "parse" /\ ~tagged.ok
                  THEN [ok |-> TRUE, val |-> default_max_retries] ELSE tagged
        max_retries == parsed.val
        run_group == get_run_group(store, run.run_id)
        run_group_list == run_group.members
        size == Cardinality(run_group_list)
    IN  IF ~parsed.ok
        THEN [ret |-> NoRetry, event |-> TRUE, lookup |-> FALSE]
        ELSE IF max_retries = 0
        THEN [ret |-> NoRetry, event |-> FALSE, lookup |-> FALSE]
        ELSE [event |-> FALSE, lookup |-> TRUE,
              ret |-> IF run_group.exists
                      THEN IF (IF fault = "budget" THEN size > max_retries + 1
                               ELSE fault # "nobudget" /\ size >= max_retries + 1)
                           THEN NoRetry
                           ELSE IF (IF fault = "tag"
                                    THEN HasTag(store[run.run_id].tags,
                                                AUTO_RETRY_RUN_ID_TAG)
                                    ELSE fault # "child" /\ \E run_ \in run_group_list :
                                            run.run_id = run_.parent_run_id)
                           THEN NoRetry
                           ELSE IF fault = "number" THEN size + 1 ELSE size
                      ELSE 1]

get_retry_number_no_status(run, store, default_max_retries) ==
    FaultyRetryNumber(run, store, default_max_retries, "status")
get_retry_number_budget_gt(run, store, default_max_retries) ==
    FaultyRetryNumber(run, store, default_max_retries, "budget")
get_retry_number_plus_one(run, store, default_max_retries) ==
    FaultyRetryNumber(run, store, default_max_retries, "number")
get_retry_number_parse_default(run, store, default_max_retries) ==
    FaultyRetryNumber(run, store, default_max_retries, "parse")
get_retry_number_no_child(run, store, default_max_retries) ==
    FaultyRetryNumber(run, store, default_max_retries, "child")
get_retry_number_child_by_tag(run, store, default_max_retries) ==
    FaultyRetryNumber(run, store, default_max_retries, "tag")
get_retry_number_no_budget(run, store, default_max_retries) ==
    FaultyRetryNumber(run, store, default_max_retries, "nobudget")

\* get_retry_number(run): ret is the retry number or NoRetry; event says the
\* parse error was reported, lookup that get_run_group was called.
get_retry_number(run, store, default_max_retries) ==
    IF run.status # FAILURE
    THEN [ret |-> NoRetry, event |-> FALSE, lookup |-> FALSE]
    ELSE
    LET parsed == IF HasTag(run.tags, MAX_RETRIES_TAG)
                  THEN PyInt(run.tags[MAX_RETRIES_TAG])
                  ELSE [ok |-> TRUE, val |-> default_max_retries]
        max_retries == parsed.val
        run_group == get_run_group(store, run.run_id)
        run_group_list == run_group.members
    IN  IF ~parsed.ok
        THEN [ret |-> NoRetry, event |-> TRUE, lookup |-> FALSE]
        ELSE IF max_retries = 0
        THEN [ret |-> NoRetry, event |-> FALSE, lookup |-> FALSE]
        ELSE [event |-> FALSE, lookup |-> TRUE,
              ret |-> IF run_group.exists
                      THEN IF Cardinality(run_group_list) >= max_retries + 1
                           THEN NoRetry
                           ELSE IF \E run_ \in run_group_list :
                                       run.run_id = run_.parent_run_id
                           THEN NoRetry
                           ELSE Cardinality(run_group_list)
                      ELSE 1]

\* FilterRun with the gate of lines 76-79 applied whatever the failure reason.
FilterRun_gate_any_reason(run, store, default_max_retries, default_gate, fail) ==
    LET g == get_retry_number(run, store, default_max_retries)
        retry_on_asset_or_op_failure ==
            get_boolean_tag_value(run.tags, RETRY_ON_ASSET_OR_OP_FAILURE_TAG,
                                  default_gate)
        skip == g.ret # NoRetry /\ ~retry_on_asset_or_op_failure
    IN  [kind |-> IF g.ret # NoRetry /\ ~skip THEN "yield" ELSE "exclude",
         retry_number |-> g.ret,
         lookup |-> g.lookup,
         reported |-> IF g.event THEN {"parse_max_retries"}
                      ELSE IF skip THEN {"skip_step_failure"} ELSE {}]

\* One pass of the loop of filter_runs_to_should_retry over `run`; fail is the
\* call site that raises in this pass (NoFail: none does).
FilterRun(run, store, default_max_retries, default_gate, fail) ==
    LET g == get_retry_number(run, store, default_max_retries)
        raisedInGet ==
            \/ g.event /\ fail = "filter.report_engine_event"
            \/ g.lookup /\ fail = "filter.get_run_group"
        retry_on_asset_or_op_failure ==
            get_boolean_tag_value(run.tags, RETRY_ON_ASSET_OR_OP_FAILURE_TAG,
                                  default_gate)
        skip == /\ g.ret # NoRetry
                /\ HasTag(run.tags, RUN_FAILURE_REASON_TAG)
                /\ run.tags[RUN_FAILURE_REASON_TAG] = STEP_FAILURE
                /\ ~retry_on_asset_or_op_failure
        raisedInSkip == ~raisedInGet /\ skip /\ fail = "filter.report_engine_event"
    IN  [kind |-> IF raisedInGet \/ raisedInSkip THEN "raise"
                  ELSE IF g.ret # NoRetry /\ ~skip THEN "yield" ELSE "exclude",
         retry_number |-> IF raisedInGet THEN NoRetry ELSE g.ret,
         lookup |-> g.lookup,
         reported |-> IF raisedInGet \/ raisedInSkip THEN {}
                      ELSE IF g.event THEN {"parse_max_retries"}
                      ELSE IF skip THEN {"skip_step_failure"} ELSE {}]


(***************************************************************************)
(* get_reexecution_strategy and retry_run                                  *)
(***************************************************************************)
NoStrategy == "None"

\* get_reexecution_strategy without the membership test of line 96: the raw
\* tag is taken for the variant.
get_reexecution_strategy_unchecked(run) ==
    IF ~HasTag(run.tags, RETRY_STRATEGY_TAG)
    THEN [ret |-> NoStrategy, event |-> FALSE]
    ELSE [ret |-> run.tags[RETRY_STRATEGY_TAG], event |-> FALSE]

\* get_reexecution_strategy(run, instance): ret is the variant or NoStrategy;
\* event says the unknown tag value was reported.
get_reexecution_strategy(run) ==
    IF ~HasTag(run.tags, RETRY_STRATEGY_TAG)
    THEN [ret |-> NoStrategy, event |-> FALSE]
    ELSE IF run.tags[RETRY_STRATEGY_TAG] \notin ReexecutionStrategyMembers
    THEN [ret |-> NoStrategy, event |-> TRUE]
    ELSE [ret |-> run.tags[RETRY_STRATEGY_TAG], event |-> FALSE]

\* ResolveRetry with the has_job check of lines 135-141 missing.
ResolveRetry_no_job_check(failed_run, ws, fail) ==
    LET s == get_reexecution_strategy(failed_run)
    IN  IF ~failed_run.remote_job_origin
        THEN [kind |-> "return", reported |-> {"no_origin"}, strategy |-> NoStrategy]
        ELSE IF ~ws.has_repository
        THEN [kind |-> "return", reported |-> {"no_repository"},
              strategy |-> NoStrategy]
        ELSE [kind |-> "proceed",
              reported |-> IF s.event THEN {"bad_strategy"} ELSE {},
              strategy |-> IF s.ret # NoStrategy THEN s.ret
                           ELSE DEFAULT_REEXECUTION_POLICY]

\* retry_run up to the choice of the strategy: the resolution chain with its
\* three soft-fail returns. kind is "return" (a soft fail), "raise" or
\* "proceed" (go on to create the run); fail is the call site that raises.
\* The calls made on the code location (has_repository, get_repository,
\* has_job) raise with get_code_location.
ResolveRetry(failed_run, ws, fail) ==
    LET raise == [kind |-> "raise", reported |-> {}, strategy |-> NoStrategy]
        soft(k) == IF fail = "retry.report_engine_event" THEN raise
                   ELSE [kind |-> "return", reported |-> {k},
                         strategy |-> NoStrategy]
        s == get_reexecution_strategy(failed_run)
    IN  IF fail = "retry.create_request_context" THEN raise
        ELSE IF ~failed_run.remote_job_origin THEN soft("no_origin")
        ELSE IF fail = "retry.get_code_location" THEN raise
        ELSE IF ~ws.has_repository THEN soft("no_repository")
        ELSE IF ~ws.has_job THEN soft("no_job")
        ELSE IF fail = "retry.get_job" THEN raise
        ELSE IF s.event /\ fail = "retry.report_engine_event" THEN raise
        ELSE [kind |-> "proceed",
              reported |-> IF s.event THEN {"bad_strategy"} ELSE {},
              strategy |-> IF s.ret # NoStrategy THEN s.ret
                           ELSE DEFAULT_REEXECUTION_POLICY]

\* instance.create_reexecuted_run(parent_run, ..., strategy, extra_tags,
\* use_parent_run_tags=True): the new run, not yet started.
create_reexecuted_run(new_id, parent_run, strat, extra_tags) ==
    [run_id |-> new_id,
     status |-> "NOT_STARTED",
     parent_run_id |-> parent_run.run_id,
     root_run_id |-> IF parent_run.root_run_id # NoRun
                     THEN parent_run.root_run_id ELSE parent_run.run_id,
     tags |-> MergeTags(parent_run.tags, extra_tags),
     remote_job_origin |-> parent_run.remote_job_origin,
     strategy |-> strat]

\* RetryTags counting the retries from zero.
RetryTags_from_zero(retry_number) ==
    [k \in {RETRY_NUMBER_TAG} |-> PyStr(retry_number - 1)]

\* tags = {RETRY_NUMBER_TAG: str(retry_number)}
RetryTags(retry_number) ==
    [k \in {RETRY_NUMBER_TAG} |-> PyStr(retry_number)]

\* instance.add_run_tags(run_id, new_tags) on a stored run
add_run_tags(store, run_id, new_tags) ==
    [store EXCEPT ![run_id].tags = MergeTags(store[run_id].tags, new_tags)]

\* {AUTO_RETRY_RUN_ID_TAG: new_run.run_id}
LineageTags(new_run_id) ==
    [k \in {AUTO_RETRY_RUN_ID_TAG} |-> new_run_id]

(***************************************************************************)
(* consume_new_runs_for_automatic_reexecution: one generator per daemon    *)
(* instance p, advanced by its consumer. pc[p] is                          *)
(*   "idle"     no generator yet                                           *)
(*   "filter"   inside next(): the filter's loop is about to take a run    *)
(*   "yielded"  suspended at the yield: the consumer holds a checkpoint    *)
(*   "create", "link", "launched", "submit", "tag"                         *)
(*              inside retry_run, before the call of that name             *)
(*   "except"   in the except clause, before its report_engine_event       *)
(*   "done"     exhausted (StopIteration)                                  *)
(*   "stopped"  the consumer dropped the generator at a checkpoint         *)
(*   "raised"   an exception left the generator                            *)
(*   "interrupted"  the process was stopped in the middle of the sweep      *)
(***************************************************************************)
NullRun == [run_id |-> NoRun, status |-> "NOT_STARTED", parent_run_id |-> NoRun,
            root_run_id |-> NoRun, tags |-> <<>>, remote_job_origin |-> FALSE,
            strategy |-> NoStrategy]
NoCand == [run |-> NullRun, retry_number |-> NoRetry]
NoObs == [valid |-> FALSE, proc |-> 0, run |-> NullRun, kind |-> "exclude",
          retry_number |-> NoRetry, lookup |-> FALSE, reported |-> {},
          n_events |-> 0,
          group_exists |-> FALSE, group_size |-> 0, has_child |-> FALSE]

\* Where the generator goes when it needs the next run of the batch.
LoopPc(p, i) == IF i > Len(batch[p]) THEN "done" ELSE "filter"

FailChoices(sites) == (failable \cap sites) \cup {NoFail}

\* The batches a consumer can hand over: records of runs the store holds.
Batches(store) ==
    UNION {{[i \in 1..n |-> store[b[i]]] : b \in [1..n -> DOMAIN store]} :
           n \in 0..limits.batch}

\* The consumer reads run records, builds the generator and pulls once.
\* The sweeps are counted up to limits.sweeps; a limit of 0 stands for a
\* daemon that sweeps for ever, whose sweeps are not counted.
StartSweep(p) ==
    /\ p \in procs
    /\ pc[p] \in {"idle", "done", "stopped", "raised", "interrupted"}
    /\ IF limits.sweeps = 0 THEN TRUE ELSE sweeps < limits.sweeps
    /\ \E b \in Batches(runs) :
        /\ batch' = [batch EXCEPT ![p] = b]
        /\ pc' = [pc EXCEPT ![p] = IF Len(b) = 0 THEN "done" ELSE "filter"]
    /\ idx' = [idx EXCEPT ![p] = 1]
    /\ cand' = [cand EXCEPT ![p] = NoCand]
    /\ newRun' = [newRun EXCEPT ![p] = NoRun]
    /\ strategy' = [strategy EXCEPT ![p] = NoStrategy]
    /\ checkpoints' = [checkpoints EXCEPT ![p] = 0]
    /\ attempts' = [attempts EXCEPT ![p] = 0]
    /\ sweeps' = IF limits.sweeps = 0 THEN sweeps ELSE sweeps + 1
    /\ UNCHANGED <<storeVars, envVars, events, obs>>

\* FilterStep with the yield of line 198 missing: a pair goes straight into
\* retry_run, and no checkpoint is handed to the consumer.
FilterStep_no_yield(p) ==
    /\ p \in procs
    /\ pc[p] = "filter"
    /\ \E fail \in FailChoices(FilterSites) :
        LET run == batch[p][idx[p]]
            o == FilterRun(run, runs, run_retries_max_retries,
                           run_retries_retry_on_asset_or_op_failure, fail)
            r == ResolveRetry(run, workspace, NoFail)
        IN  /\ events' = Report(Report(events, run.run_id, o.reported), run.run_id,
                                IF o.kind = "yield" THEN r.reported ELSE {})
            /\ pc' = [pc EXCEPT ![p] =
                        IF o.kind = "yield"
                        THEN IF r.kind = "return" THEN LoopPc(p, idx[p] + 1)
                             ELSE "create"
                        ELSE IF o.kind = "raise" THEN "raised"
                        ELSE LoopPc(p, idx[p] + 1)]
            /\ cand' = [cand EXCEPT ![p] =
                        IF o.kind = "yield"
                        THEN [run |-> run, retry_number |-> o.retry_number]
                        ELSE @]
            /\ strategy' = [strategy EXCEPT ![p] =
                        IF o.kind = "yield" THEN r.strategy ELSE @]
            /\ attempts' = [attempts EXCEPT ![p] =
                        IF o.kind = "yield" THEN @ + 1 ELSE @]
    /\ idx' = [idx EXCEPT ![p] = @ + 1]
    /\ UNCHANGED <<storeVars, envVars, batch, newRun, checkpoints, obs, sweeps>>

\* FilterStep with the filter run to its end over the batch before the first
\* retry_run (a list made of the generator): each run is decided from the
\* store without the runs created since.
FilterStep_eager(p) ==
    /\ p \in procs
    /\ pc[p] = "filter"
    /\ \E fail \in FailChoices(FilterSites) :
        LET run == batch[p][idx[p]]
            before == [x \in DOMAIN runs \ {c[2] : c \in created} |-> runs[x]]
            o == FilterRun(run, before, run_retries_max_retries,
                           run_retries_retry_on_asset_or_op_failure, fail)
            g == get_run_group(runs, run.run_id)
        IN  /\ events' = Report(events, run.run_id, o.reported)
            /\ pc' = [pc EXCEPT ![p] =
                        IF o.kind = "yield" THEN "yielded"
                        ELSE IF o.kind = "raise" THEN "raised"
                        ELSE LoopPc(p, idx[p] + 1)]
            /\ cand' = [cand EXCEPT ![p] =
                        IF o.kind = "yield"
                        THEN [run |-> run, retry_number |-> o.retry_number]
                        ELSE @]
            /\ checkpoints' = [checkpoints EXCEPT ![p] =
                        IF o.kind = "yield" THEN @ + 1 ELSE @]
            /\ obs' = [valid |-> TRUE, proc |-> p, run |-> run, kind |-> o.kind,
                       retry_number |-> o.retry_number, lookup |-> o.lookup,
                       reported |-> o.reported,
                       n_events |-> EventCount(events', run.run_id)
                                    - EventCount(events, run.run_id),
                       group_exists |-> g.exists,
                       group_size |-> Cardinality(g.members),
                       has_child |-> \E m \in g.members :
                                         m.parent_run_id = run.run_id]
    /\ idx' = [idx EXCEPT ![p] = @ + 1]
    /\ UNCHANGED <<storeVars, envVars, batch, newRun, strategy, attempts, sweeps>>

\* The filter's loop takes the next run of the batch (lines 69-86) and the
\* orchestrator yields at line 198 if the filter yielded a pair.
FilterStep(p) ==
    /\ p \in procs
    /\ pc[p] = "filter"
    /\ \E fail \in FailChoices(FilterSites) :
       \E run \in {batch[p][idx[p]]} :
       \E o \in {FilterRun(run, runs, run_retries_max_retries,
                           run_retries_retry_on_asset_or_op_failure, fail)} :
       \E g \in {get_run_group(runs, run.run_id)} :
            /\ events' = Report(events, run.run_id, o.reported)
            /\ pc' = [pc EXCEPT ![p] =
                        IF o.kind = "yield" THEN "yielded"
                        ELSE IF o.kind = "raise" THEN "raised"
                        ELSE LoopPc(p, idx[p] + 1)]
            /\ cand' = [cand EXCEPT ![p] =
                        IF o.kind = "yield"
                        THEN [run |-> run, retry_number |-> o.retry_number]
                        ELSE @]
            /\ checkpoints' = [checkpoints EXCEPT ![p] =
                        IF o.kind = "yield" THEN @ + 1 ELSE @]
            /\ obs' = [valid |-> TRUE, proc |-> p, run |-> run, kind |-> o.kind,
                       retry_number |-> o.retry_number, lookup |-> o.lookup,
                       reported |-> o.reported,
                       n_events |-> EventCount(events', run.run_id)
                                    - EventCount(events, run.run_id),
                       group_exists |-> g.exists,
                       group_size |-> Cardinality(g.members),
                       has_child |-> \E m \in g.members :
                                         m.parent_run_id = run.run_id]
    /\ idx' = [idx EXCEPT ![p] = @ + 1]
    /\ UNCHANGED <<storeVars, envVars, batch, newRun, strategy, attempts, sweeps>>

\* The consumer drops the generator at a checkpoint.
StopPulling(p) ==
    /\ p \in procs
    /\ pc[p] = "yielded"
    /\ pc' = [pc EXCEPT ![p] = "stopped"]
    /\ UNCHANGED <<storeVars, envVars, events, batch, idx, cand, newRun,
                   strategy, checkpoints, attempts, obs, sweeps>>

\* The consumer pulls again: retry_run starts (line 201) and runs lines
\* 111-155, the resolution chain and the choice of the strategy.
Resolve(p) ==
    /\ p \in procs
    /\ pc[p] = "yielded"
    /\ \E fail \in FailChoices(RetrySites) :
        LET o == ResolveRetry(cand[p].run, workspace, fail)
        IN  /\ events' = Report(events, cand[p].run.run_id, o.reported)
            /\ pc' = [pc EXCEPT ![p] =
                        IF o.kind = "raise" THEN "except"
                        ELSE IF o.kind = "return" THEN LoopPc(p, idx[p])
                        ELSE "create"]
            /\ strategy' = [strategy EXCEPT ![p] = o.strategy]
    /\ attempts' = [attempts EXCEPT ![p] = @ + 1]
    /\ newRun' = [newRun EXCEPT ![p] = NoRun]
    /\ UNCHANGED <<storeVars, envVars, batch, idx, cand, checkpoints, obs, sweeps>>

\* Lines 157-164: instance.create_reexecuted_run.
CreateRun(p) ==
    /\ p \in procs
    /\ pc[p] = "create"
    /\ nextId <= limits.runs
    /\ \E fail \in FailChoices({"retry.create_reexecuted_run"}) :
        IF fail # NoFail
        THEN /\ pc' = [pc EXCEPT ![p] = "except"]
             /\ UNCHANGED <<runs, nextId, created, newRun>>
        ELSE /\ runs' = [r \in DOMAIN runs \cup {nextId} |->
                            IF r = nextId
                            THEN create_reexecuted_run(nextId, cand[p].run,
                                     strategy[p], RetryTags(cand[p].retry_number))
                            ELSE runs[r]]
             /\ created' = created \cup {<<cand[p].run.run_id, nextId>>}
             /\ newRun' = [newRun EXCEPT ![p] = nextId]
             /\ nextId' = nextId + 1
             /\ pc' = [pc EXCEPT ![p] = "link"]
    /\ UNCHANGED <<submitted, envVars, events, batch, idx, cand, strategy,
                   checkpoints, attempts, obs, sweeps>>

\* Lines 166-170: "Retrying the run", reported on the failed run.
ReportRetrying(p) ==
    /\ p \in procs
    /\ pc[p] = "link"
    /\ \E fail \in FailChoices({"retry.report_engine_event"}) :
        IF fail # NoFail
        THEN /\ pc' = [pc EXCEPT ![p] = "except"]
             /\ UNCHANGED events
        ELSE /\ events' = Report(events, cand[p].run.run_id, {"retrying"})
             /\ pc' = [pc EXCEPT ![p] = "launched"]
    /\ UNCHANGED <<storeVars, envVars, batch, idx, cand, newRun, strategy,
                   checkpoints, attempts, obs, sweeps>>

\* Lines 171-177: "Launched as an automatic retry", reported on the new run.
ReportLaunched(p) ==
    /\ p \in procs
    /\ pc[p] = "launched"
    /\ \E fail \in FailChoices({"retry.report_engine_event"}) :
        IF fail # NoFail
        THEN /\ pc' = [pc EXCEPT ![p] = "except"]
             /\ UNCHANGED events
        ELSE /\ events' = Report(events, newRun[p], {"launched"})
             /\ pc' = [pc EXCEPT ![p] = "submit"]
    /\ UNCHANGED <<storeVars, envVars, batch, idx, cand, newRun, strategy,
                   checkpoints, attempts, obs, sweeps>>

\* SubmitRun with the error of submit_run swallowed: retry_run goes on to the
\* tag write whether or not the run was queued.
SubmitRun_error_swallowed(p) ==
    /\ p \in procs
    /\ pc[p] = "submit"
    /\ \E fail \in FailChoices({"retry.submit_run"}) :
        IF fail # NoFail \/ newRun[p] \notin DOMAIN runs
        THEN UNCHANGED <<runs, submitted>>
        ELSE /\ submitted' = submitted \cup {newRun[p]}
             /\ runs' = [runs EXCEPT ![newRun[p]].status = "QUEUED"]
    /\ pc' = [pc EXCEPT ![p] = "tag"]
    /\ UNCHANGED <<nextId, created, envVars, events, batch, idx, cand, newRun,
                   strategy, checkpoints, attempts, obs, sweeps>>

\* Line 179: instance.submit_run(new_run.run_id, workspace); the run is
\* queued. A run deleted meanwhile cannot be submitted.
SubmitRun(p) ==
    /\ p \in procs
    /\ pc[p] = "submit"
    /\ \E fail \in FailChoices({"retry.submit_run"}) :
        IF fail # NoFail \/ newRun[p] \notin DOMAIN runs
        THEN /\ pc' = [pc EXCEPT ![p] = "except"]
             /\ UNCHANGED <<runs, submitted>>
        ELSE /\ submitted' = submitted \cup {newRun[p]}
             /\ runs' = [runs EXCEPT ![newRun[p]].status = "QUEUED"]
             /\ pc' = [pc EXCEPT ![p] = "tag"]
    /\ UNCHANGED <<nextId, created, envVars, events, batch, idx, cand, newRun,
                   strategy, checkpoints, attempts, obs, sweeps>>

\* AddRunTags with the tag write of line 180 missing: retry_run returns
\* after submit_run.
AddRunTags_no_write(p) ==
    /\ p \in procs
    /\ pc[p] = "tag"
    /\ pc' = [pc EXCEPT ![p] = LoopPc(p, idx[p])]
    /\ UNCHANGED <<storeVars, envVars, events, batch, idx, cand, newRun,
                   strategy, checkpoints, attempts, obs, sweeps>>

\* Line 180: instance.add_run_tags(failed_run.run_id, {AUTO_RETRY_RUN_ID_TAG:
\* new_run.run_id}); retry_run returns. A run deleted meanwhile has no tags
\* to add to: the call raises.
AddRunTags(p) ==
    /\ p \in procs
    /\ pc[p] = "tag"
    /\ \E fail \in FailChoices({"retry.add_run_tags"}) :
        IF fail # NoFail \/ cand[p].run.run_id \notin DOMAIN runs
        THEN /\ pc' = [pc EXCEPT ![p] = "except"]
             /\ UNCHANGED runs
        ELSE /\ runs' = add_run_tags(runs, cand[p].run.run_id,
                                     LineageTags(newRun[p]))
             /\ pc' = [pc EXCEPT ![p] = LoopPc(p, idx[p])]
    /\ UNCHANGED <<nextId, submitted, created, envVars, events, batch, idx,
                   cand, newRun, strategy, checkpoints, attempts, obs, sweeps>>

\* HandleError without the try/except of lines 200-202: the exception of
\* retry_run leaves the generator.
HandleError_reraise(p) ==
    /\ p \in procs
    /\ pc[p] = "except"
    /\ pc' = [pc EXCEPT ![p] = "raised"]
    /\ UNCHANGED <<storeVars, envVars, events, batch, idx, cand, newRun,
                   strategy, checkpoints, attempts, obs, sweeps>>

\* Lines 202-208: the except clause reports "Failed to retry run" on the
\* failed run; the loop goes on. If this report raises, the exception leaves
\* the generator.
HandleError(p) ==
    /\ p \in procs
    /\ pc[p] = "except"
    /\ \E fail \in FailChoices(HandlerSites) :
        IF fail # NoFail
        THEN /\ pc' = [pc EXCEPT ![p] = "raised"]
             /\ UNCHANGED events
        ELSE /\ events' = Report(events, cand[p].run.run_id, {"failed_to_retry"})
             /\ pc' = [pc EXCEPT ![p] = LoopPc(p, idx[p])]
    /\ UNCHANGED <<storeVars, envVars, batch, idx, cand, newRun, strategy,
                   checkpoints, attempts, obs, sweeps>>

(***************************************************************************)
(* The environment: the execution engine and the users of the run store.   *)
(***************************************************************************)
\* The engine runs a queued run and the run fails.
EngineFailsRun(r) ==
    /\ r \in DOMAIN runs
    /\ runs[r].status = "QUEUED"
    /\ runs' = [runs EXCEPT ![r].status = FAILURE]
    /\ UNCHANGED <<nextId, submitted, created, envVars, events, pc, batch, idx,
                   cand, newRun, strategy, checkpoints, attempts, obs, sweeps>>

\* The daemon process is stopped in the middle of a sweep, inside the filter,
\* at a checkpoint or between two calls of retry_run; what it wrote to the
\* run store stays, its generator is lost. A restarted daemon sweeps anew.
Interrupt(p) ==
    /\ p \in procs
    /\ pc[p] \in {"filter", "yielded", "create", "link", "launched", "submit",
                 "tag", "except"}
    /\ pc' = [pc EXCEPT ![p] = "interrupted"]
    /\ UNCHANGED <<storeVars, envVars, events, batch, idx, cand, newRun,
                   strategy, checkpoints, attempts, obs, sweeps>>

\* A run is deleted from the run store.
DeleteRun(r) ==
    /\ r \in DOMAIN runs
    /\ (nextId - 1) - Cardinality(DOMAIN runs) < MaxDeletes
    /\ runs' = [x \in DOMAIN runs \ {r} |-> runs[x]]
    /\ UNCHANGED <<nextId, submitted, created, envVars, events, pc, batch, idx,
                   cand, newRun, strategy, checkpoints, attempts, obs, sweeps>>


(***************************************************************************)
(* Initial states. The store starts with the root runs the execution       *)
(* engine made; their tags, the instance settings and the code location    *)
(* are drawn from the sets a specification names.                          *)
(***************************************************************************)
EmptyTags == [k \in {} |-> NoStrategy]
\* A tag that is absent or holds one of vals.
OptTag(key, vals) == {EmptyTags} \cup {[k \in {key} |-> v] : v \in vals}

TagSets(maxVals, reasonVals, gateVals, strategyVals) ==
    {MergeTags(MergeTags(a, b), MergeTags(c, d)) :
        a \in OptTag(MAX_RETRIES_TAG, maxVals),
        b \in OptTag(RUN_FAILURE_REASON_TAG, reasonVals),
        c \in OptTag(RETRY_ON_ASSET_OR_OP_FAILURE_TAG, gateVals),
        d \in OptTag(RETRY_STRATEGY_TAG, strategyVals)}

RootRun(id, status, tags, origin) ==
    [run_id |-> id, status |-> status, parent_run_id |-> NoRun,
     root_run_id |-> NoRun, tags |-> tags, remote_job_origin |-> origin,
     strategy |-> NoStrategy]

Workspaces == {[has_repository |-> TRUE, has_job |-> TRUE],
               [has_repository |-> TRUE, has_job |-> FALSE],
               [has_repository |-> FALSE, has_job |-> FALSE]}
WorkspaceOk == [has_repository |-> TRUE, has_job |-> TRUE]

\* Stores of one root run and of two (two groups).
OneRun(a) == [x \in {1} |-> a]
TwoRuns(a, b) == [x \in {1, 2} |-> IF x = 1 THEN a ELSE b]
\* A store of one group: a root and two failed runs made from it.
Siblings(a) ==
    [x \in {1, 2, 3} |->
        IF x = 1 THEN a
        ELSE [create_reexecuted_run(x, a, DEFAULT_REEXECUTION_POLICY, RetryTags(1))
                 EXCEPT !.status = FAILURE]]

InitWith(stores, defaults, gates, wss, failSets, procSets, maxBatch, maxSweeps) ==
    /\ runs \in stores
    /\ nextId = Cardinality(DOMAIN runs) + 1
    /\ events = NoEvents
    /\ submitted = {}
    /\ created = {}
    /\ run_retries_max_retries \in defaults
    /\ run_retries_retry_on_asset_or_op_failure \in gates
    /\ workspace \in wss
    /\ failable \in failSets
    /\ procs \in procSets
    /\ limits = [batch |-> maxBatch, sweeps |-> maxSweeps,
                 runs |-> IF Cardinality(DOMAIN runs) < MaxRuns THEN MaxRuns
                          ELSE MaxRuns + 1]
    /\ pc = [p \in Procs |-> "idle"]
    /\ batch = [p \in Procs |-> <<>>]
    /\ idx = [p \in Procs |-> 1]
    /\ cand = [p \in Procs |-> NoCand]
    /\ newRun = [p \in Procs |-> NoRun]
    /\ strategy = [p \in Procs |-> NoStrategy]
    /\ checkpoints = [p \in Procs |-> 0]
    /\ attempts = [p \in Procs |-> 0]
    /\ obs = NoObs
    /\ sweeps = 0

(***************************************************************************)
(* SpecFilter: one daemon instance, no collaborator call raises; the root  *)
(* run takes every combination of status and of the tags the filter reads, *)
(* and the sweeps take the runs of its group one at a time.                *)
(***************************************************************************)
MaxRetriesValues == {<<"0">>, <<"1">>, <<"2">>, <<"-", "1">>, <<" ", "1">>,
                     <<"t", "w", "o">>}

InitFilter ==
    InitWith({OneRun(RootRun(1, st, t, TRUE)) :
                 st \in {FAILURE, "SUCCESS"},
                 t \in TagSets(MaxRetriesValues, {STEP_FAILURE, "UNKNOWN"},
                               {"true", "false"}, {})},
             0..2, BOOLEAN, {WorkspaceOk}, {{}}, {{1}}, MaxFilterBatch, MaxSweeps)

NextFilter ==
    \/ \E p \in Procs : StartSweep(p)
    \/ \E p \in Procs : FilterStep(p)
    \/ \E p \in Procs : StopPulling(p)
    \/ \E p \in Procs : Resolve(p)
    \/ \E p \in Procs : CreateRun(p)
    \/ \E p \in Procs : ReportRetrying(p)
    \/ \E p \in Procs : ReportLaunched(p)
    \/ \E p \in Procs : SubmitRun(p)
    \/ \E p \in Procs : AddRunTags(p)
    \/ \E r \in RunIds : EngineFailsRun(r)
    \/ \E r \in RunIds : DeleteRun(r)

SpecFilter == InitFilter /\ [][NextFilter]_vars


(***************************************************************************)
(* Claims about the eligibility filter, stated on obs: the run the filter  *)
(* last took, what it did, and the run's group in the store at that time.  *)
(***************************************************************************)
\* The max_retries the filter resolves for a run: the tag if present.
MaxRetriesParses(run) ==
    ~HasTag(run.tags, MAX_RETRIES_TAG) \/ PyInt(run.tags[MAX_RETRIES_TAG]).ok
EffectiveMaxRetries(run) ==
    IF HasTag(run.tags, MAX_RETRIES_TAG) THEN PyInt(run.tags[MAX_RETRIES_TAG]).val
    ELSE run_retries_max_retries
\* The gate: the run's own tag if present, else the instance's default.
EffectiveGate(run) ==
    IF HasTag(run.tags, RETRY_ON_ASSET_OR_OP_FAILURE_TAG)
    THEN run.tags[RETRY_ON_ASSET_OR_OP_FAILURE_TAG] = "true"
    ELSE run_retries_retry_on_asset_or_op_failure
IsStepFailure(run) ==
    /\ HasTag(run.tags, RUN_FAILURE_REASON_TAG)
    /\ run.tags[RUN_FAILURE_REASON_TAG] = STEP_FAILURE
\* The run passes the budget check and the already-has-a-child check.
PassesGroupChecks(o) ==
    /\ o.run.status = FAILURE
    /\ MaxRetriesParses(o.run)
    /\ EffectiveMaxRetries(o.run) # 0
    /\ o.group_exists =>
          /\ o.group_size < EffectiveMaxRetries(o.run) + 1
          /\ ~o.has_child

\* C2: the filter never yields a run whose status is not FAILURE, and makes
\* no run-group lookup and reports no event for it.
C2_NonFailureNeverYielded ==
    /\ (obs.valid /\ obs.run.status # FAILURE) =>
          /\ obs.kind = "exclude"
          /\ ~obs.lookup
          /\ obs.n_events = 0
    /\ \A p \in Procs : cand[p] # NoCand => cand[p].run.status = FAILURE

\* A queued retry run (two runs in its group) with a budget left is filtered.
C2_Witness ==
    /\ obs.valid
    /\ obs.run.status = "QUEUED"
    /\ obs.group_exists /\ obs.group_size = 2 /\ ~obs.has_child
    /\ MaxRetriesParses(obs.run) /\ EffectiveMaxRetries(obs.run) = 2
    /\ obs.kind = "exclude"

\* C3: a run whose group exists and holds at least max_retries + 1 runs is
\* excluded, whatever its other tags are and whether or not it has a child.
C3_BudgetExhaustedExcluded ==
    (/\ obs.valid
     /\ obs.group_exists
     /\ MaxRetriesParses(obs.run)
     /\ obs.group_size >= EffectiveMaxRetries(obs.run) + 1)
    => obs.kind = "exclude"

\* A failed retry run without a child, in a group of exactly max_retries + 1
\* runs, that the gate would let through.
C3_Witness ==
    /\ obs.valid
    /\ obs.run.status = FAILURE
    /\ obs.group_exists /\ ~obs.has_child
    /\ MaxRetriesParses(obs.run)
    /\ EffectiveMaxRetries(obs.run) = 1
    /\ obs.group_size = 2
    /\ ~IsStepFailure(obs.run)
    /\ obs.kind = "exclude"

\* C4: a yielded pair carries the size of the run's group, or 1 when the
\* run has no group; the number is a positive integer.
C4_GenerationIsGroupSize ==
    /\ (obs.valid /\ obs.kind = "yield") =>
          /\ obs.retry_number = IF obs.group_exists THEN obs.group_size ELSE 1
          /\ obs.retry_number >= 1
    /\ \A p \in Procs : cand[p] # NoCand => cand[p].retry_number >= 1

\* A FAILURE run tagged max_retries=2 without a group is yielded as (run, 1).
C4_Witness ==
    /\ obs.valid
    /\ obs.kind = "yield"
    /\ ~obs.group_exists
    /\ HasTag(obs.run.tags, MAX_RETRIES_TAG)
    /\ obs.run.tags[MAX_RETRIES_TAG] = <<"2">>
    /\ obs.retry_number = 1

\* C5: a FAILURE run that passes the budget and child checks is yielded
\* unless its failure reason is STEP_FAILURE and the effective gate is false;
\* then one event is reported on it. The gate excludes no other run.
C5_GateDecides ==
    (obs.valid /\ PassesGroupChecks(obs)) =>
        /\ obs.kind = "yield" <=> ~(IsStepFailure(obs.run) /\ ~EffectiveGate(obs.run))
        /\ obs.kind = "exclude" =>
              /\ obs.reported = {"skip_step_failure"}
              /\ obs.n_events = 1
        /\ obs.kind = "yield" => obs.n_events = 0

\* A STEP_FAILURE run whose own tag closes the gate the default leaves open.
C5_Witness ==
    /\ obs.valid /\ PassesGroupChecks(obs)
    /\ IsStepFailure(obs.run)
    /\ HasTag(obs.run.tags, RETRY_ON_ASSET_OR_OP_FAILURE_TAG)
    /\ ~EffectiveGate(obs.run)
    /\ run_retries_retry_on_asset_or_op_failure
    /\ obs.kind = "exclude"

\* C6: a FAILURE run whose max_retries tag does not parse is excluded with
\* one event reported, whatever the default is; a run whose resolved
\* max_retries is 0 is excluded; neither causes a run-group lookup.
C6_FailClosed ==
    /\ (obs.valid /\ obs.run.status = FAILURE /\ ~MaxRetriesParses(obs.run)) =>
          /\ obs.kind = "exclude"
          /\ obs.reported = {"parse_max_retries"}
          /\ obs.n_events = 1
          /\ ~obs.lookup
    /\ (/\ obs.valid /\ obs.run.status = FAILURE /\ MaxRetriesParses(obs.run)
        /\ EffectiveMaxRetries(obs.run) = 0) =>
          /\ obs.kind = "exclude"
          /\ obs.n_events = 0
          /\ ~obs.lookup

\* An unparsable tag on a failed run while the default allows two retries.
C6_Witness ==
    /\ obs.valid /\ obs.run.status = FAILURE
    /\ ~MaxRetriesParses(obs.run)
    /\ run_retries_max_retries = 2
    /\ ~IsStepFailure(obs.run)
    /\ obs.kind = "exclude"


(***************************************************************************)
(* SpecSweep: one daemon instance sweeps batches over one or two groups;   *)
(* no collaborator call raises and no run is deleted. The consumer may     *)
(* stop at any checkpoint.                                                 *)
(***************************************************************************)
SweepTags == TagSets({<<"1">>, <<"2">>}, {}, {}, {})

InitSweep ==
    InitWith({OneRun(RootRun(1, FAILURE, t, o)) : t \in SweepTags, o \in BOOLEAN}
             \cup {TwoRuns(RootRun(1, FAILURE, t, TRUE), RootRun(2, FAILURE, t, o)) :
                      t \in SweepTags, o \in BOOLEAN},
             {1}, {TRUE}, Workspaces, {{}}, {{1}}, MaxBatch, MaxSweeps)

NextSweep ==
    \/ \E p \in Procs : StartSweep(p)
    \/ \E p \in Procs : FilterStep(p)
    \/ \E p \in Procs : StopPulling(p)
    \/ \E p \in Procs : Resolve(p)
    \/ \E p \in Procs : CreateRun(p)
    \/ \E p \in Procs : ReportRetrying(p)
    \/ \E p \in Procs : ReportLaunched(p)
    \/ \E p \in Procs : SubmitRun(p)
    \/ \E p \in Procs : AddRunTags(p)
    \/ \E r \in RunIds : EngineFailsRun(r)

SpecSweep == InitSweep /\ [][NextSweep]_vars

(***************************************************************************)
(* SpecFail: sweeps in which every collaborator call made inside retry_run *)
(* may raise; the report of the except clause does not.                    *)
(***************************************************************************)
InitFail ==
    InitWith({OneRun(RootRun(1, FAILURE, t, TRUE)) : t \in SweepTags}
             \cup {TwoRuns(RootRun(1, FAILURE, t, TRUE), RootRun(2, FAILURE, t, TRUE)) :
                      t \in SweepTags},
             {1}, {TRUE}, {WorkspaceOk}, {RetrySites}, {{1}}, MaxBatch,
             MaxFailSweeps)

NextFail ==
    \/ \E p \in Procs : StartSweep(p)
    \/ \E p \in Procs : FilterStep(p)
    \/ \E p \in Procs : StopPulling(p)
    \/ \E p \in Procs : Resolve(p)
    \/ \E p \in Procs : CreateRun(p)
    \/ \E p \in Procs : ReportRetrying(p)
    \/ \E p \in Procs : ReportLaunched(p)
    \/ \E p \in Procs : SubmitRun(p)
    \/ \E p \in Procs : AddRunTags(p)
    \/ \E p \in Procs : HandleError(p)
    \/ \E r \in RunIds : EngineFailsRun(r)

SpecFail == InitFail /\ [][NextFail]_vars


(***************************************************************************)
(* Claims about the sweeps of one daemon instance.                         *)
(***************************************************************************)
\* The run's group holds a member whose parent is the run.
HasChild(store, run_id) ==
    \E m \in get_run_group(store, run_id).members : m.parent_run_id = run_id
\* The runs retry_run created with run_id as their parent.
ChildrenOf(run_id) == {c \in RunIds : <<run_id, c>> \in created}
\* In this step the filter of instance p yields run_id.
Yields(p, run_id) ==
    /\ pc[p] = "filter"
    /\ pc'[p] = "yielded"
    /\ cand'[p].run.run_id = run_id

\* C1: every run is the parent of at most one run created by retry_run, and
\* a run whose group holds a child of it is never yielded by the filter.
C1_AtMostOneRetry ==
    /\ [](\A r \in RunIds : Cardinality(ChildrenOf(r)) <= 1)
    /\ [][\A r \in RunIds : HasChild(runs, r) =>
              /\ HasChild(runs', r)
              /\ \A p \in Procs : ~Yields(p, r)]_vars

\* The second sweep over the same run, retried in full by the first, ends:
\* the run was filtered again and has one child.
C1_Witness ==
    /\ sweeps >= 2
    /\ pc[1] = "done"
    /\ obs.valid /\ obs.run.run_id = 1 /\ obs.has_child
    /\ ChildrenOf(1) # {}
    /\ HasTag(runs[1].tags, AUTO_RETRY_RUN_ID_TAG)
    /\ obs.kind = "exclude"
    /\ obs.group_size < EffectiveMaxRetries(obs.run) + 1

\* C8: at a soft-fail checkpoint (no remote-job origin, repository not found,
\* job not found) retry_run reports one event on the failed run and returns
\* without raising; the run store and every run's tags are unchanged.
SoftFailKind(run) ==
    IF ~run.remote_job_origin THEN "no_origin"
    ELSE IF ~workspace.has_repository THEN "no_repository"
    ELSE IF ~workspace.has_job THEN "no_job"
    ELSE "none"
C8_SoftFailNoEffect ==
    [][\A p \in Procs :
        (/\ pc[p] = "yielded"
         /\ attempts'[p] = attempts[p] + 1
         /\ SoftFailKind(cand[p].run) # "none")
        => /\ pc'[p] = LoopPc(p, idx[p])
           /\ events' = Report(events, cand[p].run.run_id,
                               {SoftFailKind(cand[p].run)})
           /\ EventCount(events', cand[p].run.run_id)
                 = EventCount(events, cand[p].run.run_id) + 1
           /\ UNCHANGED <<runs, nextId, submitted, created>>]_vars

\* retry_run has returned at the job-not-found checkpoint and the sweep ended.
C8_Witness ==
    /\ pc[1] = "done"
    /\ attempts[1] = 1
    /\ ~workspace.has_job /\ workspace.has_repository
    /\ events[1]["no_job"] = 1
    /\ created = {}

\* C10: each checkpoint comes before the submission of its candidate: while
\* the consumer holds the k-th checkpoint, or has stopped there, k - 1 calls
\* of retry_run have started; elsewhere as many as checkpoints.
C10_CheckpointBeforeSubmission ==
    \A p \in Procs :
        /\ pc[p] \in {"yielded", "stopped"} =>
              /\ checkpoints[p] >= 1
              /\ attempts[p] = checkpoints[p] - 1
              /\ cand[p].run.run_id \in RunIds
        /\ pc[p] \notin {"yielded", "stopped"} => attempts[p] = checkpoints[p]

\* The consumer stopped at the second checkpoint: one submission was made
\* (its run exists), none for the second candidate.
C10_Witness ==
    /\ pc[1] = "stopped"
    /\ checkpoints[1] = 2
    /\ attempts[1] = 1
    /\ Cardinality(created) = 1
    /\ ChildrenOf(cand[1].run.run_id) = {}

(***************************************************************************)
(* Claims about sweeps in which calls made by retry_run raise.             *)
(***************************************************************************)
\* C7: when retry_run raises, the except clause reports "Failed to retry
\* run" on the failed run and the loop goes on with the next run of the
\* batch; nothing is raised to the consumer, and a sweep that ends has
\* filtered every run of its batch and attempted every pair yielded.
C7_FailureIsolation ==
    /\ [](\A p \in Procs :
            /\ pc[p] # "raised"
            /\ pc[p] = "done" =>
                  /\ idx[p] = Len(batch[p]) + 1
                  /\ attempts[p] = checkpoints[p])
    /\ [][\A p \in Procs :
            (pc[p] = "except" /\ pc'[p] # "except") =>
               /\ pc'[p] = LoopPc(p, idx[p])
               /\ events' = Report(events, cand[p].run.run_id, {"failed_to_retry"})
               /\ UNCHANGED <<batch, idx, runs>>]_vars

\* retry_run raised for the first run of a batch of two, and the second
\* run's retry was still made in full.
C7_Witness ==
    /\ pc[1] = "done"
    /\ Len(batch[1]) = 2
    /\ events[batch[1][1].run_id]["failed_to_retry"] = 1
    /\ attempts[1] = 2
    /\ HasTag(runs[batch[1][2].run_id].tags, AUTO_RETRY_RUN_ID_TAG)
    /\ batch[1][1].run_id # batch[1][2].run_id

\* The retry of parent by child completed in full: created, submitted, linked.
CompletedInFull(parent, child) ==
    /\ child \in DOMAIN runs
    /\ child \in submitted
    /\ parent \in DOMAIN runs
    /\ HasTag(runs[parent].tags, AUTO_RETRY_RUN_ID_TAG)
    /\ runs[parent].tags[AUTO_RETRY_RUN_ID_TAG] = child

InitInterrupt ==
    InitWith({OneRun(RootRun(1, FAILURE, t, TRUE)) : t \in SweepTags}
             \cup {TwoRuns(RootRun(1, FAILURE, t, TRUE), RootRun(2, FAILURE, t, TRUE)) :
                      t \in SweepTags},
             {1}, {TRUE}, {WorkspaceOk}, {{}}, {{1}}, MaxFilterBatch, MaxSweeps)

NextInterrupt ==
    \/ \E p \in Procs : StartSweep(p)
    \/ \E p \in Procs : FilterStep(p)
    \/ \E p \in Procs : StopPulling(p)
    \/ \E p \in Procs : Resolve(p)
    \/ \E p \in Procs : CreateRun(p)
    \/ \E p \in Procs : ReportRetrying(p)
    \/ \E p \in Procs : ReportLaunched(p)
    \/ \E p \in Procs : SubmitRun(p)
    \/ \E p \in Procs : AddRunTags(p)
    \/ \E p \in Procs : Interrupt(p)
    \/ \E r \in RunIds : EngineFailsRun(r)

SpecInterrupt == InitInterrupt /\ [][NextInterrupt]_vars

\* The retry of run_id was cut short between submit_run and add_run_tags: a
\* run created with run_id as parent is stored and submitted, and run_id
\* carries no auto_retry_run_id tag.
SubmittedNotLinked(run_id) ==
    /\ run_id \in DOMAIN runs
    /\ ~HasTag(runs[run_id].tags, AUTO_RETRY_RUN_ID_TAG)
    /\ \E c \in ChildrenOf(run_id) : c \in DOMAIN runs /\ c \in submitted

\* In this step the filter of instance p evaluates the run it is handed.
Filters(p, run_id) ==
    /\ pc[p] = "filter"
    /\ batch[p][idx[p]].run_id = run_id
    /\ obs'.valid /\ obs'.proc = p /\ idx'[p] = idx[p] + 1

\* C11 as stated: after an interruption between submit_run and add_run_tags,
\* the filter of a later sweep does not see a child of the failed run.
C11_FilterMissesSubmittedChild ==
    [][\A p \in Procs : \A r \in RunIds :
          (SubmittedNotLinked(r) /\ Filters(p, r)) => ~obs'.has_child]_vars

\* C11 as amended: after such an interruption the filter of a later sweep
\* finds the child by its parent_run_id in the run group and excludes the
\* failed run; no run is the parent of two created runs.
C11_InterruptedRetryNotRepeated ==
    /\ [](\A r \in RunIds : Cardinality(ChildrenOf(r)) <= 1)
    /\ [][\A p \in Procs : \A r \in RunIds :
            (SubmittedNotLinked(r) /\ Filters(p, r)) =>
               /\ obs'.has_child
               /\ obs'.kind = "exclude"
               /\ ~Yields(p, r)]_vars

\* The daemon was interrupted before the tag write of run 1's retry, and the
\* next sweep filtered run 1 again, with budget left, and ended.
C11_Witness ==
    /\ sweeps >= 2
    /\ pc[1] = "done"
    /\ SubmittedNotLinked(1)
    /\ obs.valid /\ obs.run.run_id = 1 /\ obs.has_child
    /\ obs.kind = "exclude"
    /\ obs.group_size < EffectiveMaxRetries(obs.run) + 1

(***************************************************************************)
(* SpecRaise: sweeps in which every collaborator call may raise: those the *)
(* filter makes, those retry_run makes and the report of the except        *)
(* clause. The tags make the filter report (an unparsable max_retries, a   *)
(* step failure with the gate closed) as well as yield.                    *)
(***************************************************************************)
RaiseTags == TagSets({<<"1">>, <<"x">>}, {STEP_FAILURE}, {}, {})

InitRaise ==
    InitWith({OneRun(RootRun(1, FAILURE, t, TRUE)) : t \in RaiseTags}
             \cup {TwoRuns(RootRun(1, FAILURE, t, TRUE), RootRun(2, FAILURE, t, TRUE)) :
                      t \in RaiseTags},
             {1}, BOOLEAN, {WorkspaceOk},
             {FilterSites \cup RetrySites \cup HandlerSites}, {{1}}, MaxBatch,
             MaxFailSweeps)

NextRaise ==
    \/ \E p \in Procs : StartSweep(p)
    \/ \E p \in Procs : FilterStep(p)
    \/ \E p \in Procs : StopPulling(p)
    \/ \E p \in Procs : Resolve(p)
    \/ \E p \in Procs : CreateRun(p)
    \/ \E p \in Procs : ReportRetrying(p)
    \/ \E p \in Procs : ReportLaunched(p)
    \/ \E p \in Procs : SubmitRun(p)
    \/ \E p \in Procs : AddRunTags(p)
    \/ \E p \in Procs : HandleError(p)
    \/ \E r \in RunIds : EngineFailsRun(r)

SpecRaise == InitRaise /\ [][NextRaise]_vars

\* C12: whichever collaborator call fails during a sweep, no error leaves
\* consume_new_runs_for_automatic_reexecution: the generator is never ended
\* by an exception, and a sweep that ends has filtered every run of its batch.
C12_NoErrorLeavesTheSweep ==
    \A p \in Procs :
        /\ pc[p] # "raised"
        /\ pc[p] = "done" => idx[p] = Len(batch[p]) + 1

(***************************************************************************)
(* SpecTwo: two daemon instances sweep the same run store; their           *)
(* generators advance one collaborator call at a time, in any order.       *)
(***************************************************************************)
InitTwo ==
    InitWith({OneRun(RootRun(1, FAILURE, t, TRUE)) : t \in SweepTags}
             \cup {TwoRuns(RootRun(1, FAILURE, t, TRUE), RootRun(2, FAILURE, t, TRUE)) :
                      t \in SweepTags},
             {1}, {TRUE}, {WorkspaceOk}, {{}}, {Procs}, MaxFilterBatch, MaxSweeps)

NextTwo ==
    \/ \E p \in Procs : StartSweep(p)
    \/ \E p \in Procs : FilterStep(p)
    \/ \E p \in Procs : StopPulling(p)
    \/ \E p \in Procs : Resolve(p)
    \/ \E p \in Procs : CreateRun(p)
    \/ \E p \in Procs : ReportRetrying(p)
    \/ \E p \in Procs : ReportLaunched(p)
    \/ \E p \in Procs : SubmitRun(p)
    \/ \E p \in Procs : AddRunTags(p)
    \/ \E r \in RunIds : EngineFailsRun(r)

SpecTwo == InitTwo /\ [][NextTwo]_vars

\* C13: with two instances sweeping the same store, their calls interleaved,
\* at most one run is created with a given failed run as its parent.
C13_AtMostOneRetryAcrossInstances ==
    \A r \in RunIds : Cardinality(ChildrenOf(r)) <= 1

(***************************************************************************)
(* SpecDelete: the sweeps of one daemon instance over a store from which   *)
(* runs are deleted between its calls.                                     *)
(***************************************************************************)
InitDelete ==
    InitWith({OneRun(RootRun(1, FAILURE, t, TRUE)) : t \in SweepTags}
             \cup {TwoRuns(RootRun(1, FAILURE, t, TRUE), RootRun(2, FAILURE, t, TRUE)) :
                      t \in SweepTags},
             {1}, {TRUE}, {WorkspaceOk}, {{}}, {{1}}, MaxFilterBatch, MaxSweeps)

NextDelete ==
    \/ \E p \in Procs : StartSweep(p)
    \/ \E p \in Procs : FilterStep(p)
    \/ \E p \in Procs : StopPulling(p)
    \/ \E p \in Procs : Resolve(p)
    \/ \E p \in Procs : CreateRun(p)
    \/ \E p \in Procs : ReportRetrying(p)
    \/ \E p \in Procs : ReportLaunched(p)
    \/ \E p \in Procs : SubmitRun(p)
    \/ \E p \in Procs : AddRunTags(p)
    \/ \E r \in RunIds : EngineFailsRun(r)
    \/ \E r \in RunIds : DeleteRun(r)

SpecDelete == InitDelete /\ [][NextDelete]_vars

\* Every run created with run_id as parent has been deleted from the store.
ChildDeleted(run_id) ==
    /\ ChildrenOf(run_id) # {}
    /\ \A c \in ChildrenOf(run_id) : c \notin DOMAIN runs

StrategyTags == TagSets({<<"2">>}, {}, {}, {"FROM_FAILURE", "ALL_STEPS", "BOGUS"})

InitStrategy ==
    InitWith({OneRun(RootRun(1, FAILURE, t, TRUE)) : t \in StrategyTags}
             \cup {TwoRuns(RootRun(1, FAILURE, t, TRUE), RootRun(2, FAILURE, t, TRUE)) :
                      t \in StrategyTags},
             {1}, {TRUE}, {WorkspaceOk}, {{}}, {{1}}, MaxBatch, MaxFailSweeps)

NextStrategy ==
    \/ \E p \in Procs : StartSweep(p)
    \/ \E p \in Procs : FilterStep(p)
    \/ \E p \in Procs : StopPulling(p)
    \/ \E p \in Procs : Resolve(p)
    \/ \E p \in Procs : CreateRun(p)
    \/ \E p \in Procs : ReportRetrying(p)
    \/ \E p \in Procs : ReportLaunched(p)
    \/ \E p \in Procs : SubmitRun(p)
    \/ \E p \in Procs : AddRunTags(p)
    \/ \E r \in RunIds : EngineFailsRun(r)

SpecStrategy == InitStrategy /\ [][NextStrategy]_vars

\* The retry_strategy tag names a variant of ReexecutionStrategy.
NamesVariant(tags) ==
    HasTag(tags, RETRY_STRATEGY_TAG)
        /\ tags[RETRY_STRATEGY_TAG] \in ReexecutionStrategyMembers
\* The tag is present and names no variant.
NamesNoVariant(tags) ==
    HasTag(tags, RETRY_STRATEGY_TAG)
        /\ tags[RETRY_STRATEGY_TAG] \notin ReexecutionStrategyMembers
\* The variant the new run is to be created with.
VariantFor(tags) ==
    IF NamesVariant(tags) THEN tags[RETRY_STRATEGY_TAG] ELSE DEFAULT_REEXECUTION_POLICY

\* C15: retry_run, resolving a run with a job to run, goes on to create the
\* new run whatever the retry_strategy tag: it reports one event on the
\* failed run when the tag names no variant and none otherwise, and takes the
\* named variant, or FROM_FAILURE when the tag is absent or names none; the
\* new run is created with that variant, and a sweep that ends has submitted
\* and linked every run it created.
C15_UnknownStrategyNeverBlocks ==
    /\ [][\A p \in Procs :
            (pc[p] = "yielded" /\ attempts'[p] = attempts[p] + 1) =>
               LET run == cand[p].run
               IN  /\ pc'[p] = "create"
                   /\ strategy'[p] = VariantFor(run.tags)
                   /\ events' = IF NamesNoVariant(run.tags)
                                THEN Report(events, run.run_id, {"bad_strategy"})
                                ELSE events
                   /\ EventCount(events', run.run_id) - EventCount(events, run.run_id)
                         = IF NamesNoVariant(run.tags) THEN 1 ELSE 0]_vars
    /\ [](\A pair \in created :
            /\ runs[pair[2]].strategy = VariantFor(runs[pair[1]].tags)
            /\ runs[pair[2]].parent_run_id = pair[1])
    /\ [](\A p \in Procs : pc[p] = "done" =>
            \A pair \in created : CompletedInFull(pair[1], pair[2]))

\* A sweep ended after retrying run 1, tagged retry_strategy = BOGUS: one
\* event was reported for the tag and run 2 was created with FROM_FAILURE,
\* submitted and linked.
C15_Witness ==
    /\ pc[1] = "done"
    /\ NamesNoVariant(runs[1].tags)
    /\ events[1]["bad_strategy"] = 1
    /\ <<1, 2>> \in created
    /\ runs[2].strategy = DEFAULT_REEXECUTION_POLICY
    /\ CompletedInFull(1, 2)

(***************************************************************************)
(* SpecOrder: sweeps in which the calls retry_run makes after the creation *)
(* of the run may raise, over a store from which runs are deleted.         *)
(***************************************************************************)
InitOrder ==
    InitWith({OneRun(RootRun(1, FAILURE, t, TRUE)) : t \in SweepTags},
             {1}, {TRUE}, {WorkspaceOk},
             {{"retry.report_engine_event", "retry.submit_run"}},
             {{1}}, MaxFilterBatch, MaxSweeps)

NextOrder ==
    \/ \E p \in Procs : StartSweep(p)
    \/ \E p \in Procs : FilterStep(p)
    \/ \E p \in Procs : StopPulling(p)
    \/ \E p \in Procs : Resolve(p)
    \/ \E p \in Procs : CreateRun(p)
    \/ \E p \in Procs : ReportRetrying(p)
    \/ \E p \in Procs : ReportLaunched(p)
    \/ \E p \in Procs : SubmitRun(p)
    \/ \E p \in Procs : AddRunTags(p)
    \/ \E p \in Procs : HandleError(p)
    \/ \E r \in RunIds : EngineFailsRun(r)
    \/ \E r \in RunIds : DeleteRun(r)

SpecOrder == InitOrder /\ [][NextOrder]_vars

\* Run x was created with parent f, both cross-link events were reported and
\* submit_run(x) returned.
CreatedAnnouncedSubmitted(f, x) ==
    /\ <<f, x>> \in created
    /\ events[f]["retrying"] >= 1
    /\ events[x]["launched"] >= 1
    /\ x \in submitted

\* In this step auto_retry_run_id is written on the stored run f.
TagWritten(f) ==
    /\ f \in DOMAIN runs /\ f \in DOMAIN runs'
    /\ HasTag(runs'[f].tags, AUTO_RETRY_RUN_ID_TAG)
    /\ ~HasTag(runs[f].tags, AUTO_RETRY_RUN_ID_TAG)
          \/ runs[f].tags[AUTO_RETRY_RUN_ID_TAG] # runs'[f].tags[AUTO_RETRY_RUN_ID_TAG]

\* C16: retry_run creates the run, then reports "Retrying the run" on the
\* failed run, then "Launched as an automatic retry" on the new run, then
\* submits, then writes the tag: a run announced as launched was created and
\* its parent's event reported, a run submitted was announced, and whenever
\* auto_retry_run_id = x is written on a run f, x was created with parent f
\* and submit_run(x) has returned. A root run carrying the tag carries one so
\* written.
C16_TagAfterCreateAndSubmit ==
    /\ [](\A x \in RunIds :
            /\ events[x]["launched"] >= 1 =>
                  \E f \in RunIds : <<f, x>> \in created /\ events[f]["retrying"] >= 1
            /\ x \in submitted =>
                  \E f \in RunIds : CreatedAnnouncedSubmitted(f, x))
    /\ [][\A f \in RunIds : TagWritten(f) =>
              CreatedAnnouncedSubmitted(f, runs'[f].tags[AUTO_RETRY_RUN_ID_TAG])]_vars
    /\ [](\A f \in DOMAIN runs :
            (runs[f].parent_run_id = NoRun /\ HasTag(runs[f].tags, AUTO_RETRY_RUN_ID_TAG))
            => CreatedAnnouncedSubmitted(f, runs[f].tags[AUTO_RETRY_RUN_ID_TAG]))

\* The submit_run of run 1's first retry raised and left run 1 without the
\* tag; that run was deleted, and a later sweep retried run 1 in full.
C16_Witness ==
    /\ created = {<<1, 2>>, <<1, 3>>}
    /\ 2 \notin submitted
    /\ events[1]["failed_to_retry"] = 1
    /\ pc[1] = "done"
    /\ 1 \in DOMAIN runs
    /\ HasTag(runs[1].tags, AUTO_RETRY_RUN_ID_TAG)
    /\ runs[1].tags[AUTO_RETRY_RUN_ID_TAG] = 3
    /\ CreatedAnnouncedSubmitted(1, 3)

(***************************************************************************)
(* Claims about the groups that the sweeps of one daemon instance build    *)
(* (SpecSweep: no call raises, no run is deleted, retries may fail).       *)
(***************************************************************************)
\* The stored runs that are roots of a group.
Roots == {r \in DOMAIN runs : runs[r].parent_run_id = NoRun}
\* The runs retry_run created in the group of root r.
CreatedInGroup(r) == {c \in RunIds : \E f \in RunIds :
                         <<f, c>> \in created /\ runs[c].root_run_id = r}

\* C17: the group of a root run whose effective max_retries is M >= 1 never
\* holds more than M + 1 runs, at most M of them created by retry_run, and
\* every run of the group has the same effective max_retries.
C17_GroupWithinBudget ==
    \A r \in Roots :
        LET M == EffectiveMaxRetries(runs[r])
            g == get_run_group(runs, r).members
        IN  M >= 1 =>
              /\ Cardinality(g) <= M + 1
              /\ Cardinality(CreatedInGroup(r)) <= M
              /\ \A m \in g : EffectiveMaxRetries(m) = M

\* The group of run 1 is full, its last retry has failed, and the filter of
\* a later sweep excluded that retry with the budget check.
C17_Witness ==
    /\ obs.valid /\ obs.kind = "exclude"
    /\ obs.run.root_run_id = 1
    /\ obs.run.status = FAILURE
    /\ ~obs.has_child
    /\ obs.group_size = EffectiveMaxRetries(runs[1]) + 1
    /\ Cardinality(CreatedInGroup(1)) = EffectiveMaxRetries(runs[1])
    /\ pc[1] = "done"

\* The number of retries that lead from the root of its group to run r.
RECURSIVE Depth(_)
Depth(r) == IF runs[r].parent_run_id = NoRun THEN 0
            ELSE 1 + Depth(runs[r].parent_run_id)
\* The retry number a run carries, 0 for a run that carries none.
RetryNumberOf(run) ==
    IF HasTag(run.tags, RETRY_NUMBER_TAG) THEN PyInt(run.tags[RETRY_NUMBER_TAG]).val
    ELSE 0

\* C18: the run that retry_run creates carries retry_number = str of the
\* number the filter yielded, whatever retry_number the failed run carried,
\* and every other tag of the failed run; the n-th run of a chain of retries
\* carries retry_number n, one more than its parent.
C18_RetryNumberIsGeneration ==
    /\ [][\A p \in Procs : (pc[p] = "create" /\ pc'[p] = "link") =>
            LET parent == cand[p].run
                new == runs'[newRun'[p]]
            IN  /\ new.parent_run_id = parent.run_id
                /\ DOMAIN new.tags = DOMAIN parent.tags \cup {RETRY_NUMBER_TAG}
                /\ new.tags[RETRY_NUMBER_TAG] = PyStr(cand[p].retry_number)
                /\ \A k \in DOMAIN parent.tags \ {RETRY_NUMBER_TAG} :
                      new.tags[k] = parent.tags[k]]_vars
    /\ [](\A pair \in created :
            /\ HasTag(runs[pair[2]].tags, RETRY_NUMBER_TAG)
            /\ PyInt(runs[pair[2]].tags[RETRY_NUMBER_TAG]).ok
            /\ RetryNumberOf(runs[pair[2]]) = Depth(pair[2])
            /\ RetryNumberOf(runs[pair[2]]) = RetryNumberOf(runs[pair[1]]) + 1)

\* Run 3 retries run 2, which retried run 1: it inherited retry_number = 1
\* and max_retries from run 2 and carries retry_number = 2.
C18_Witness ==
    /\ created = {<<1, 2>>, <<2, 3>>}
    /\ runs[2].tags[RETRY_NUMBER_TAG] = <<"1">>
    /\ runs[3].tags[RETRY_NUMBER_TAG] = <<"2">>
    /\ runs[3].tags[MAX_RETRIES_TAG] = runs[1].tags[MAX_RETRIES_TAG]
    /\ HasTag(runs[1].tags, AUTO_RETRY_RUN_ID_TAG)

(***************************************************************************)
(* SpecLazy: one daemon instance sweeps batches that name a run twice or   *)
(* name two runs of one group; in the stores of three runs the root was    *)
(* retried twice (by two instances, or by hand) and both retries failed.   *)
(***************************************************************************)
InitLazy ==
    InitWith({OneRun(RootRun(1, FAILURE, t, TRUE)) : t \in SweepTags}
             \cup {Siblings(RootRun(1, FAILURE, t, TRUE)) :
                      t \in TagSets({<<"3">>, <<"4">>}, {}, {}, {})},
             {1}, {TRUE}, {WorkspaceOk}, {{}}, {{1}}, MaxBatch, MaxFailSweeps)

NextLazy ==
    \/ \E p \in Procs : StartSweep(p)
    \/ \E p \in Procs : FilterStep(p)
    \/ \E p \in Procs : StopPulling(p)
    \/ \E p \in Procs : Resolve(p)
    \/ \E p \in Procs : CreateRun(p)
    \/ \E p \in Procs : ReportRetrying(p)
    \/ \E p \in Procs : ReportLaunched(p)
    \/ \E p \in Procs : SubmitRun(p)
    \/ \E p \in Procs : AddRunTags(p)
    \/ \E r \in RunIds : EngineFailsRun(r)

SpecLazy == InitLazy /\ [][NextLazy]_vars

\* The runs of the group of run_id that the store holds now.
GroupNow(run_id) == get_run_group(runs, run_id).members

\* C19: the filter decides each run of the batch from the store as the
\* retries of the earlier runs of the batch left it: a run that an earlier
\* position of the batch got retried is excluded although its record in the
\* batch shows no retry, a run whose group an earlier retry filled is
\* excluded, and so no run gets two retries and a group in which a retry was
\* created holds at most max_retries + 1 runs.
C19_LazyFilterSeesEarlierRetries ==
    /\ [][\A p \in Procs : \A r \in RunIds :
            (/\ Filters(p, r)
             /\ \/ ChildrenOf(r) # {}
                \/ Cardinality(GroupNow(r)) >= EffectiveMaxRetries(batch[p][idx[p]]) + 1)
            => /\ ~Yields(p, r)
               /\ obs'.kind = "exclude"]_vars
    /\ [](\A r \in RunIds : Cardinality(ChildrenOf(r)) <= 1)
    /\ [](\A r \in Roots :
            CreatedInGroup(r) # {} =>
                Cardinality(GroupNow(r)) <= EffectiveMaxRetries(runs[r]) + 1)

\* A sweep over two failed runs of one group ended: the first was retried,
\* which filled the group, and the second, childless, was then excluded.
C19_Witness ==
    /\ pc[1] = "done"
    /\ Len(batch[1]) = 2
    /\ batch[1][1].run_id # batch[1][2].run_id
    /\ batch[1][1].root_run_id = 1 /\ batch[1][2].root_run_id = 1
    /\ ChildrenOf(batch[1][1].run_id) # {}
    /\ ChildrenOf(batch[1][2].run_id) = {}
    /\ obs.valid /\ obs.run.run_id = batch[1][2].run_id
    /\ obs.kind = "exclude" /\ ~obs.has_child
    /\ obs.group_size = EffectiveMaxRetries(obs.run) + 1

(***************************************************************************)
(* SpecLive: a daemon that sweeps for ever. Its consumer pulls every       *)
(* generator to exhaustion, every run is handed to a sweep again and       *)
(* again, and every retry that was queued fails.                           *)
(***************************************************************************)
InitLive ==
    InitWith({OneRun(RootRun(1, FAILURE, t, TRUE)) : t \in SweepTags}
             \cup {TwoRuns(RootRun(1, FAILURE, t, TRUE), RootRun(2, "SUCCESS", t, TRUE)) :
                      t \in TagSets({<<"1">>}, {}, {}, {})},
             {1}, {TRUE}, {WorkspaceOk}, {{}}, {{1}}, MaxFilterBatch, 0)

NextLive ==
    \/ \E p \in Procs : StartSweep(p)
    \/ \E p \in Procs : FilterStep(p)
    \/ \E p \in Procs : Resolve(p)
    \/ \E p \in Procs : CreateRun(p)
    \/ \E p \in Procs : ReportRetrying(p)
    \/ \E p \in Procs : ReportLaunched(p)
    \/ \E p \in Procs : SubmitRun(p)
    \/ \E p \in Procs : AddRunTags(p)
    \/ \E r \in RunIds : EngineFailsRun(r)

\* The consumer pulls: the generator of instance p takes its next step.
Pull(p) ==
    \/ FilterStep(p)
    \/ Resolve(p)
    \/ CreateRun(p)
    \/ ReportRetrying(p)
    \/ ReportLaunched(p)
    \/ SubmitRun(p)
    \/ AddRunTags(p)

\* Instance p starts a sweep whose batch holds a failed run that has no
\* retry in the store.
SweepOverUnretried(p) ==
    /\ StartSweep(p)
    /\ \E i \in 1..Len(batch'[p]) :
          /\ batch'[p][i].status = FAILURE
          /\ \A x \in DOMAIN runs : runs[x].parent_run_id # batch'[p][i].run_id

\* The consumer goes on pulling, a failed run without a retry is handed to a
\* sweep at some time, and a queued run fails at some time.
FairLive ==
    /\ WF_vars(Pull(1))
    /\ SF_vars(SweepOverUnretried(1))
    /\ WF_vars(\E r \in RunIds : EngineFailsRun(r))

SpecLive == InitLive /\ [][NextLive]_vars /\ FairLive

\* The filter excludes every run the store holds.
Quiescent ==
    \A r \in DOMAIN runs :
        FilterRun(runs[r], runs, run_retries_max_retries,
                  run_retries_retry_on_asset_or_op_failure, NoFail).kind = "exclude"

\* C20: a sweep hands out at most one checkpoint per run of its batch and,
\* pulled to exhaustion, ends; and with every retry failing and swept again,
\* the daemon reaches a state from which the filter excludes every run of the
\* store for ever and no run is created any more.
C20_SweepsEndAndRetriesStop ==
    /\ [](\A p \in Procs : checkpoints[p] <= Len(batch[p]))
    /\ \A p \in {1} : (pc[p] = "filter") ~> (pc[p] = "done")
    /\ <>[](Quiescent /\ \A r \in DOMAIN runs : runs[r].status # "QUEUED")
    /\ <>[][created' = created /\ runs' = runs]_vars

\* The group of run 1 is full of failed runs, the sweep over its last retry
\* ended without a checkpoint, and the filter excludes every run.
C20_Witness ==
    /\ pc[1] = "done"
    /\ Quiescent
    /\ created # {}
    /\ checkpoints[1] = 0 /\ Len(batch[1]) >= 1
    /\ Cardinality(GroupNow(1)) = EffectiveMaxRetries(runs[1]) + 1
    /\ \A m \in GroupNow(1) : m.status = FAILURE
    /\ obs.valid /\ obs.run.parent_run_id # NoRun /\ obs.kind = "exclude"

====
